---- MODULE Spec2Model ----
(***************************************************************************)
(* Packit: the loading pipeline of packit.js (readFrom, parseSTL,          *)
(* stl_ascii, stl_binary, parseOBJ) as a state machine over the browser's  *)
(* task queue.                                                             *)
(*                                                                         *)
(* An STL blob is described by a record; its two views (the text           *)
(* FileReader hands to stl_ascii, the bytes it hands to stl_binary) are    *)
(* computed from the record by TextLines/Line and ByteLength/Byte.  A      *)
(* 32-bit float is identified with the integer whose little-endian bytes   *)
(* it occupies.  An OBJ blob is the list of its lines, each split into     *)
(* pieces and parts as parseOBJ splits it.  The Controller of a viewer      *)
(* (rotate, stopRotation, transitionRotation, transitionColor, update) is  *)
(* modelled with angles in sixtieths of a degree and colors as one number. *)
(***************************************************************************)
EXTENDS Integers, Sequences, FiniteSets, TLC

\* ---------------------------------------------------------------- constants
PER_BATCH == 500

\* Largest length of a typed array the host allocates; new Float32Array(n)
\* raises a RangeError beyond it.
MAX_ARRAY_LENGTH == 2147483647

\* What a Float32Array element holds after a store of undefined or of a
\* string that is no number.
NaN == -1

\* ------------------------------------------------------------------- bounds
\* parseSTL calls made for one viewer.
MaxCalls == 2

\* Coordinates of the generated meshes are drawn from 0..CoordMod-1.
CoordMod == 1000

\* Calls of the control methods of one viewer, and Controller.update calls
\* for one viewer.
MaxApi == 2
MaxUpdates == 4

\* The elements of class "packit" a document may hold; a viewer is named by
\* the element it was created for.
Viewers == {"v1", "v2"}

\* --------------------------------------------------------------- the inputs
\* A token of text: a numeral, or a word that is no number.
Num(x) == [num |-> TRUE, val |-> x, word |-> ""]
Word(w) == [num |-> FALSE, val |-> 0, word |-> w]

Chars(s) ==
  CASE s = "solid " -> <<"s", "o", "l", "i", "d", " ">>
    [] s = "xsolid" -> <<"x", "s", "o", "l", "i", "d">>
    [] s = "binary" -> <<"b", "i", "n", "a", "r", "y">>
    [] s = "junk!!" -> <<"j", "u", "n", "k", "!", "!">>

\* kind "ascii":  n facets; nl pieces after split (7n+3 with the trailing
\*                newline); lead extra leading tokens on the third vertex line
\* kind "binary": n is the count at bytes [80,84); recs whole 50-byte records
\*                follow, then cut bytes of a truncated one; nl pieces of text
\* kind "junk":   cut bytes of something else
AsciiFile(n, nl, lead, seed) ==
  [kind |-> "ascii", n |-> n, recs |-> n, cut |-> 0, nl |-> nl, lead |-> lead,
   seed |-> seed, head |-> "solid "]

BinaryFile(n, recs, cut, nl, head, seed) ==
  [kind |-> "binary", n |-> n, recs |-> recs, cut |-> cut, nl |-> nl, lead |-> 0,
   seed |-> seed, head |-> head]

JunkFile(len, nl) ==
  [kind |-> "junk", n |-> 0, recs |-> 0, cut |-> len, nl |-> nl, lead |-> 0,
   seed |-> 0, head |-> "junk!!"]

TriCounts == {0, 1, PER_BATCH - 1, PER_BATCH, PER_BATCH + 1, 2 * PER_BATCH + 250}

ValidAscii == {AsciiFile(n, 7 * n + 3, 0, 1) : n \in TriCounts}

ValidBinary == {BinaryFile(n, n, 0, 1, "binary", 3) : n \in TriCounts}

\* Valid binary files whose 80-byte header begins with "solid"; the number of
\* 0x0A bytes in them decides how many pieces the text splits into.
SolidBinary ==
  {BinaryFile(1, 1, 0, nl, "solid ", 5) : nl \in {1, 5, 10}}
    \cup {BinaryFile(PER_BATCH, PER_BATCH, 0, nl, "solid ", 5) :
            nl \in {40, 7 * PER_BATCH + 3}}

\* Binary files whose declared count exceeds the records present.
ShortBinary ==
  { BinaryFile(1, 0, 0, 1, "binary", 3),
    BinaryFile(2, 1, 30, 1, "binary", 3),
    BinaryFile(2, 1, 16, 1, "binary", 3),
    BinaryFile(PER_BATCH + 100, 1, 0, 1, "binary", 3),
    BinaryFile(PER_BATCH + 100, PER_BATCH + 50, 14, 1, "binary", 3),
    BinaryFile(538976288, 0, 0, 1, "binary", 3) }

OtherFiles ==
  { AsciiFile(PER_BATCH, 7 * PER_BATCH + 3, 2, 1),
    AsciiFile(1, 9, 0, 1),
    AsciiFile(PER_BATCH, 7 * PER_BATCH + 2, 0, 1),
    BinaryFile(1, 1, 0, 1, "xsolid", 3),
    JunkFile(10, 2),
    JunkFile(82, 3) }

Files == ValidAscii \cup ValidBinary \cup SolidBinary \cup ShortBinary \cup OtherFiles

\* ------------------------------------------------------------- OBJ inputs
\* A line of OBJ text is the list of pieces line.split(" ") gives; a piece is
\* the list of parts piece.split("/") gives; a part is a numeral or another
\* word.  The first two characters of the line are id.
ObjLine(id, toks) == [id |-> id, toks |-> toks]

N1(x) == <<Num(x)>>
W1(w) == <<Word(w)>>

\* "v a b c", "v a b", "v a b c d"
VLine(xs) == ObjLine("v ", <<W1("v")>> \o [k \in DOMAIN xs |-> N1(xs[k])])

\* "vt a b" or "vt a b c"
VtLine(xs) == ObjLine("vt", <<W1("vt")>> \o [k \in DOMAIN xs |-> N1(xs[k])])

\* "f c1 c2 ... cn", and the same line with a blank before the line break
FLine(corners) == ObjLine("f ", <<W1("f")>> \o corners)
FLineBlank(corners) == ObjLine("f ", <<W1("f")>> \o corners \o <<W1("")>>)

\* The corners "a", "a/t" and "a//n"
Corner(a) == N1(a)
CornerT(a, t) == <<Num(a), Num(t)>>
CornerN(a, n) == <<Num(a), Word(""), Num(n)>>

VertexBlocks ==
  { <<>>,
    <<VLine(<<0, 0, 0>>)>>,
    <<VLine(<<1, 2, 3>>), VLine(<<4, 5, 6>>), VLine(<<7, 8, 9>>)>>,
    <<VLine(<<1, 2, 3>>), VLine(<<4, 5>>)>>,
    <<VLine(<<1, 2, 3, 4>>), ObjLine("# ", <<W1("#"), W1("note")>>)>> }

UvBlocks ==
  { <<>>,
    <<VtLine(<<10, 11>>), VtLine(<<12, 13>>)>>,
    <<VtLine(<<10, 11, 12>>)>> }

FaceBlocks ==
  { <<>>,
    <<FLine(<<Corner(1), Corner(2), Corner(3)>>)>>,
    <<FLine(<<Corner(1), Corner(2), Corner(3), Corner(4)>>)>>,
    <<FLineBlank(<<Corner(1), Corner(2), Corner(3), Corner(4)>>)>>,
    <<FLineBlank(<<Corner(1), Corner(2), Corner(3), Corner(4), Corner(5)>>)>>,
    <<FLineBlank(<<Corner(-1), Corner(-2), Corner(-3)>>)>>,
    <<FLineBlank(<<CornerT(1, 1), CornerT(2, -1), CornerN(3, 1)>>)>>,
    <<FLineBlank(<<Corner(0), Corner(9), Corner(-9)>>)>>,
    <<FLineBlank(<<W1("x"), Corner(1), Corner(2), Corner(3), Corner(4)>>),
      FLineBlank(<<Corner(3), Corner(2), Corner(1)>>)>> }

TailBlocks == { <<>>, <<VLine(<<20, 21, 22>>), ObjLine("", <<W1("")>>)>> }

\* reader.result.split(/\n/g) of the OBJ texts
ObjTexts ==
  {vb \o ub \o fb \o tb :
     vb \in VertexBlocks, ub \in UvBlocks, fb \in FaceBlocks, tb \in TailBlocks}

\* ------------------------------------------------------------ the src paths
\* A src attribute is the list of pieces path.split(".") gives, each a list of
\* characters.
StlPath == << <<"m">>, <<"s", "t", "l">> >>
ObjPath == << <<"m">>, <<"o", "b", "j">> >>

MixedCasePaths ==
  { << <<"m">>, <<"S", "T", "L">> >>,
    << <<"m">>, <<"S", "t", "l">> >>,
    << <<"m">>, <<"O", "B", "J">> >>,
    << <<"m">>, <<"o", "b", "J">> >> }

OtherPaths ==
  { << <<"m">>, <<"p", "l", "y">> >>,
    << <<"m">>, <<"s", "t", "l">>, <<"t", "x", "t">> >>,
    << <<"m">>, <<"s", "t", "l", "x">> >>,
    << <<"m">>, <<"o", "b">> >>,
    << <<"m">>, <<"T", "X", "T">> >>,
    << <<"m">> >> }

\* The element a document holds: its src attribute and what the server
\* returns for it, a blob of STL kind or the text of an OBJ file.
Container(path, f, t) == [src |-> path, file |-> f, text |-> t]

Containers ==
  {Container(StlPath, f, <<>>) : f \in Files}
    \cup {Container(ObjPath, JunkFile(10, 2), t) : t \in ObjTexts}
    \cup {Container(p, BinaryFile(1, 1, 0, 1, "binary", 3),
                     <<VLine(<<0, 0, 0>>)>>) : p \in MixedCasePaths \cup OtherPaths}

\* The containers of the documents with two elements: a binary file whose
\* header starts with "solid", a binary file of three batches, a file
\* neither parser reads, and an OBJ file.
PairContainers ==
  { Container(StlPath, BinaryFile(1, 1, 0, 1, "solid ", 5), <<>>),
    Container(StlPath, BinaryFile(2 * PER_BATCH + 250, 2 * PER_BATCH + 250, 0, 1,
                                  "binary", 3), <<>>),
    Container(StlPath, JunkFile(10, 2), <<>>),
    Container(ObjPath, JunkFile(10, 2), <<VLine(<<0, 0, 0>>)>>) }

\* The container of the documents whose viewer is controlled.
ControlContainers == { Container(ObjPath, JunkFile(10, 2), <<VLine(<<0, 0, 0>>)>>) }

\* The arguments the page passes to the viewer's methods: speeds and angles
\* in degrees, colors as getHex numbers, frame counts doubled (0, 0.5, 1, 3).
Speeds == { <<1, 2, 3>> }
Targets == { <<30, 60, 90>>, <<0, 0, 0>> }
Colors == { 0, 250 }
FrameCounts == { 0, 1, 2, 6 }

\* Coordinate j (0..8) of triangle i of the mesh a file encodes.
Coord(f, i, j) == (f.seed + 9 * i + j) % CoordMod

\* Component c (0..2) of the facet normal of triangle i.
NormalOf(f, i, c) == CoordMod + ((f.seed + i + c) % 7)

\* The flat vertex list of the mesh a file encodes.
Mesh(f) == [k \in 1..(9 * f.recs) |-> Coord(f, (k - 1) \div 9, (k - 1) % 9)]

\* ------------------------------------------------------------ the text view
\* reader.result.split(/\n/g).length
TextLines(f) == f.nl

VertexLine(f, i, c) ==
  LET xyz == <<Num(Coord(f, i, 3 * c)), Num(Coord(f, i, 3 * c + 1)),
               Num(Coord(f, i, 3 * c + 2))>>
      pad == IF c = 2 THEN [k \in 1..f.lead |-> Word("")] ELSE <<>>
  IN pad \o <<Word("vertex")>> \o xyz

\* splice[k].split(" ") for 0 <= k < TextLines(f)
Line(f, k) ==
  IF f.kind /= "ascii" THEN <<Word("#")>>
  ELSE IF k = 0 THEN <<Word("solid"), Word("m")>>
  ELSE IF k > 7 * f.n + 1 THEN <<Word("")>>
  ELSE IF k = 7 * f.n + 1 THEN <<Word("endsolid"), Word("m")>>
  ELSE LET i == (k - 1) \div 7
           r == (k - 1) % 7
       IN CASE r = 0 -> <<Word("facet"), Word("normal"), Num(NormalOf(f, i, 0)),
                          Num(NormalOf(f, i, 1)), Num(NormalOf(f, i, 2))>>
            [] r = 1 -> <<Word("outer"), Word("loop")>>
            [] r \in {2, 3, 4} -> VertexLine(f, i, r - 2)
            [] r = 5 -> <<Word("endloop")>>
            [] r = 6 -> <<Word("endfacet")>>

\* ------------------------------------------------------------ the byte view
ByteLength(f) ==
  CASE f.kind = "binary" -> 84 + 50 * f.recs + f.cut
    [] f.kind = "ascii" -> 20 * f.nl
    [] f.kind = "junk" -> f.cut

\* Byte b (0..3) of the little-endian 32-bit word x.
ByteOf(x, b) ==
  CASE b = 0 -> x % 256
    [] b = 1 -> (x \div 256) % 256
    [] b = 2 -> (x \div 65536) % 256
    [] b = 3 -> (x \div 16777216) % 256

\* Byte k of the blob, 0 <= k < ByteLength(f).
Byte(f, k) ==
  IF f.kind /= "binary" THEN 32
  ELSE IF k < 80 THEN 0
  ELSE IF k < 84 THEN ByteOf(f.n, k - 80)
  ELSE LET i == (k - 84) \div 50
           o == (k - 84) % 50
       IN IF o < 12 THEN ByteOf(NormalOf(f, i, o \div 4), o % 4)
          ELSE IF o < 48 THEN ByteOf(Coord(f, i, (o - 12) \div 4), o % 4)
          ELSE 255

\* ---------------------------------------------------------- host primitives
Min(a, b) == IF a < b THEN a ELSE b
Max(a, b) == IF a > b THEN a ELSE b

\* ArrayBuffer.prototype.slice(begin, end): both ends clamped to the buffer.
Slice(f, begin, end) ==
  LET lo == Min(Max(begin, 0), ByteLength(f))
      hi == Min(Max(end, 0), ByteLength(f))
  IN [lo |-> lo, len |-> Max(hi - lo, 0)]

\* new Uint32Array(buffer) / new Float32Array(buffer) raise a RangeError
\* unless the byte length is a multiple of 4.
ViewThrows(sl) == sl.len % 4 /= 0

\* Element j of the 32-bit view over a slice; undefined past its end.
Word32(f, sl, j) ==
  IF 4 * j + 3 < sl.len
  THEN Byte(f, sl.lo + 4 * j) + 256 * Byte(f, sl.lo + 4 * j + 1)
         + 65536 * Byte(f, sl.lo + 4 * j + 2) + 16777216 * Byte(f, sl.lo + 4 * j + 3)
  ELSE NaN

\* The number a string converts to when stored into a Float32Array.
ToNumber(tok) == IF tok.num THEN tok.val ELSE IF tok.word = "" THEN 0 ELSE NaN

\* v[k] of a JavaScript array, converted for the store: undefined gives NaN.
Elem(v, k) == IF 0 <= k /\ k < Len(v) THEN ToNumber(v[k + 1]) ELSE NaN

\* String.prototype.toLowerCase, on the letters the paths use.
LowerChar(c) ==
  CASE c = "S" -> "s" [] c = "T" -> "t" [] c = "L" -> "l"
    [] c = "O" -> "o" [] c = "B" -> "b" [] c = "J" -> "j"
    [] c = "X" -> "x" [] OTHER -> c

KeepCase(w) == w

toLowerCase(w) == [k \in DOMAIN w |-> LowerChar(w[k])]

VALID_EXTENSIONS == {<<"s", "t", "l">>, <<"o", "b", "j">>}

\* extension[extension.length - 1].toLowerCase() of path.split(".")
Extension(path) == toLowerCase(path[Len(path)])

\* String.prototype.includes on sequences of characters.
Includes(s, pat) ==
  \E off \in 0..(Len(s) - Len(pat)) : \A k \in 1..Len(pat) : s[off + k] = pat[k]

\* ------------------------------------------------------------------- state
VARIABLES
  document,              \* the elements of class "packit" the document holds
  src,                   \* the src attribute of each container
  file,                  \* the blob each viewer's container names
  text,                  \* the lines of that blob when it is an OBJ file
  visited,               \* the containers readFrom was called with
  viewers,               \* packit.viewers: the containers that got a viewer
  xhr,                   \* the request of each container
  objCalls,              \* parseOBJ calls made so far
  objRuns,               \* executions of parseOBJ's reader.onload
  attemptedASCII_STL,    \* Viewer.attemptedASCII_STL
  attemptedBINARY_STL,   \* Viewer.attemptedBINARY_STL
  pending,               \* FileReader loads in flight, per viewer and handler
  timers,                \* timers set by setTimeout and not yet fired
  displayed,             \* the calls of viewer.display, in order
  calls,                 \* parseSTL calls made so far
  asciiRuns,             \* executions of stl_ascii's reader.onload
  binaryRuns,            \* executions of stl_binary's reader.onload
  surfaced,              \* errors that reached the host (uncaught or logged)
  lateCalls,             \* parseSTL calls made when both flags were already true
  clock,                 \* number of the host task being run
  objects,               \* Controller.objects: the material color of each
  rotation,              \* Controller.container.rotation
  rotationSpeed,         \* Controller.rotationSpeed
  transitionFactors,     \* Controller.transitionFactors
  target,                \* Controller.target
  updates,               \* Controller.update calls made so far
  apiCalls,              \* calls of the viewer's control methods so far
  rotReq,                \* the last call that concerned the rotation
  rotLog,                \* the rotation after each update since that call
  colReq,                \* the last call that concerned the color
  colLog                 \* the colors after each update since that call

\* What the loading pipeline reads and writes, Controller.objects aside.
loader == <<document, src, file, text, visited, viewers, xhr, objCalls, objRuns,
            attemptedASCII_STL, attemptedBINARY_STL, pending, timers,
            displayed, calls, asciiRuns, binaryRuns, surfaced, lateCalls, clock>>

\* What only the Controller's methods write.
control == <<rotation, rotationSpeed, transitionFactors, target, updates,
             apiCalls, rotReq, rotLog, colReq, colLog>>

vars == <<loader, objects, control>>

\* ---------------------------------------------------- one parse: local state
\* The locals of one reader.onload: triangleData, batchCount, whether an
\* exception is propagating, and what the handler did so far (the display
\* calls, the for loops over getTriangle it ran, the timers it set).
NewParse(triCount, task) ==
  [td |-> [k \in 1..(9 * triCount) |-> 0], batchCount |-> 0, threw |-> FALSE,
   shown |-> <<>>, batches |-> <<>>, timers |-> 0, task |-> task]

Throw(st) == [st EXCEPT !.threw = TRUE]

\* viewer.display(triangleData) as called by the STL parsers: one argument.
Display(st, by, triCount) ==
  [st EXCEPT !.shown = Append(@,
     [vertices |-> st.td, hasIndices |-> FALSE, faceIndices |-> <<>>,
      hasColors |-> FALSE, hasUvs |-> FALSE, uvs |-> <<>>, by |-> by,
      triCount |-> triCount, batches |-> st.batches])]

\* ------------------------------------------------------ stl_ascii getTriangle
\* splice[3 + 7 * index], [4 + ...] or [5 + ...] is undefined: .split raises a
\* TypeError before anything is stored.
AsciiThrows(f, index) == 5 + 7 * index >= TextLines(f)

\* The token of v2 stored at 9 * index + 5, and the token of v3 stored at
\* 9 * index + 6.
AsciiThirdOfSecond(v2, v3) == Elem(v2, Len(v3) - 1)
AsciiFirstOfThird(v2, v3) == Elem(v3, Len(v2) - 3)

\* What getTriangle(index) stores at triangleData[9 * index + j].
AsciiValue(f, index, j) ==
  LET v1 == Line(f, 3 + 7 * index)
      v2 == Line(f, 4 + 7 * index)
      v3 == Line(f, 5 + 7 * index)
  IN CASE j = 0 -> Elem(v1, Len(v1) - 3)
       [] j = 1 -> Elem(v1, Len(v1) - 2)
       [] j = 2 -> Elem(v1, Len(v1) - 1)
       [] j = 3 -> Elem(v2, Len(v2) - 3)
       [] j = 4 -> Elem(v2, Len(v2) - 2)
       [] j = 5 -> AsciiThirdOfSecond(v2, v3)
       [] j = 6 -> AsciiFirstOfThird(v2, v3)
       [] j = 7 -> Elem(v3, Len(v3) - 2)
       [] j = 8 -> Elem(v3, Len(v3) - 1)

\* ----------------------------------------------------- stl_binary getTriangle
BinaryOffsetAtRecordStart(index) == 84 + 50 * index

\* Byte offset of the nine floats getTriangle reads for triangle index.
BinaryOffset(index) == 96 + 50 * index

\* new Float32Array(arr.buffer.slice(...)) raises a RangeError.
BinaryThrows(f, index) ==
  ViewThrows(Slice(f, BinaryOffset(index), BinaryOffset(index) + 36))

\* What getTriangle(index) stores at triangleData[9 * index + j]: triangle[j].
BinaryValue(f, index, j) ==
  Word32(f, Slice(f, BinaryOffset(index), BinaryOffset(index) + 36), j)

\* ------------------------------------------------------------------ runBatch
\* stl_ascii and stl_binary each hold a copy of runBatch, the same text up to
\* the getTriangle it calls; by names the parser whose copy runs.
GetTriangleThrows(by, f, index) ==
  IF by = "ascii" THEN AsciiThrows(f, index) ELSE BinaryThrows(f, index)

GetTriangleValue(by, f, index, j) ==
  IF by = "ascii" THEN AsciiValue(f, index, j) ELSE BinaryValue(f, index, j)

\* for (let i = 0; i < count; i++) getTriangle(first + i).  The calls are made
\* in increasing i up to the first that throws; call first + i stores into
\* triangleData[9 * (first + i) .. 9 * (first + i) + 8], and a store past the
\* end of the typed array is ignored.  The loop is recorded in batches with
\* the number of getTriangle calls it made.
Loop(by, f, first, count, st) ==
  LET bad == {i \in first..(first + count - 1) : GetTriangleThrows(by, f, i)}
      stop == IF bad = {} THEN first + count
              ELSE CHOOSE i \in bad : \A j \in bad : i <= j
  IN [st EXCEPT
        !.td = [k \in DOMAIN @ |->
                  IF first <= (k - 1) \div 9 /\ (k - 1) \div 9 < stop
                  THEN GetTriangleValue(by, f, (k - 1) \div 9, (k - 1) % 9)
                  ELSE @[k]],
        !.threw = bad /= {},
        !.batches = Append(@, [first |-> first, count |-> count,
                               calls |-> IF bad = {} THEN count ELSE stop - first + 1,
                               task |-> st.task])]

\* The number of getTriangle calls of the first loop of runBatch.
FirstLoopCount(triCount) == PER_BATCH

FinishDisplayFirst(by, f, triCount, remainder, st) ==
  Loop(by, f, PER_BATCH * st.batchCount, remainder, Display(st, by, triCount))

FinishDisplayAnyway(by, f, triCount, remainder, st) ==
  Display(Loop(by, f, PER_BATCH * st.batchCount, remainder, st), by, triCount)

FinishDisplayAgain(by, f, triCount, remainder, st) ==
  LET s3 == Loop(by, f, PER_BATCH * st.batchCount, remainder, st)
  IN IF s3.threw THEN s3 ELSE Display(Display(s3, by, triCount), by, triCount)

\* The else branch of runBatch: the remaining triangles, then the display.
Finish(by, f, triCount, remainder, st) ==
  LET s3 == Loop(by, f, PER_BATCH * st.batchCount, remainder, st)
  IN IF s3.threw THEN s3 ELSE Display(s3, by, triCount)

\* setTimeout(runBatch(), TIMEOUT_CONSTANT): the argument is evaluated first,
\* so the next batch runs inside this call; the timer is then set with the
\* value runBatch returned, undefined, and does nothing when it fires.
RECURSIVE RunBatch(_, _, _, _)
RunBatch(by, f, triCount, st) ==
  LET batchLimit == triCount \div PER_BATCH
      remainder == triCount - batchLimit * PER_BATCH
      s1 == Loop(by, f, PER_BATCH * st.batchCount, FirstLoopCount(triCount), st)
      s2 == [s1 EXCEPT !.batchCount = @ + 1]
  IN IF s1.threw THEN s1
     ELSE IF s2.batchCount < batchLimit
     THEN LET s3 == RunBatch(by, f, triCount, s2)
          IN IF s3.threw THEN s3 ELSE [s3 EXCEPT !.timers = @ + 1]
     ELSE Finish(by, f, triCount, remainder, s2)

AsciiTryUnchecked(f, task) ==
  RunBatch("ascii", f, (TextLines(f) - 3) \div 7,
           NewParse((TextLines(f) - 3) \div 7, task))

\* The try block of stl_ascii's reader.onload.
AsciiTry(f, task) ==
  LET lines == TextLines(f)
  IN IF (lines - 3) % 7 /= 0
     THEN Throw(NewParse(0, task))         \* throw "Illegal Parse"
     ELSE RunBatch("ascii", f, (lines - 3) \div 7, NewParse((lines - 3) \div 7, task))

\* The try block of stl_binary's reader.onload.  triCount is an element of a
\* Uint32Array, so triCount !== parseInt(triCount, 10) holds only when the
\* array is empty and the element undefined.
BinaryTry(f, task) ==
  LET sl == Slice(f, 80, 84)
      triCount == Word32(f, sl, 0)
  IN IF ViewThrows(sl) \/ sl.len = 0
     THEN Throw(NewParse(0, task))
     ELSE IF triCount > MAX_ARRAY_LENGTH \div 9
     THEN Throw(NewParse(0, task))         \* new Float32Array: RangeError
     ELSE RunBatch("binary", f, triCount, NewParse(triCount, task))

\* ------------------------------------------------------------------ parseOBJ
\* The numbers parseFace computes are multiples of 1/3 (vertices.length / 3
\* and uvs.length / 3): a number is held as three times its value, and nan
\* marks NaN and undefined, which every typed array converts alike.
Third(n3) == [nan |-> FALSE, n3 |-> n3]
NotANumber == [nan |-> TRUE, n3 |-> 0]

\* q + d / 3
Add(q, d3) == IF q.nan THEN q ELSE Third(q.n3 + d3)

\* a[k] of a JavaScript array, undefined outside 0..length-1.
At(a, k) == IF 0 <= k /\ k < Len(a) THEN a[k + 1] ELSE NotANumber

\* parseInt(spl[k - 1]) for the parts spl of a corner: NaN for a missing or
\* empty part and for a word.
parseInt(spl, k) ==
  IF k <= Len(spl) /\ spl[k].num THEN Third(3 * spl[k].val) ELSE NotANumber

\* Element of new Uint32Array(faces): the fraction is dropped, NaN gives 0,
\* and the result is taken modulo 2^32; an element u is identified with the
\* integer of -2^31 .. 2^31-1 congruent to it, so -1 stands for 4294967295.
ToUint32(q) ==
  IF q.nan THEN 0
  ELSE IF q.n3 >= 0 THEN q.n3 \div 3 ELSE 0 - ((0 - q.n3) \div 3)

\* for (i = 0; i < arr.length; i++) { el = parseFloat(arr[i]);
\*   if (!isNaN(el)) list.push(el) }, from 1-based position i on.
RECURSIVE PushNumbers(_, _, _)
PushNumbers(arr, i, list) ==
  IF i > Len(arr) THEN list
  ELSE PushNumbers(arr, i + 1,
                   IF arr[i][1].num THEN Append(list, arr[i][1].val) ELSE list)

parseVertexDroppingLast(arr, vertices) ==
  PushNumbers(SubSeq(arr, 1, Len(arr) - 1), 1, vertices)

parseVertex(arr, vertices) == PushNumbers(arr, 1, vertices)

parseUV(arr, uvs) == PushNumbers(arr, 1, uvs)

RelativeToNext(q, length) == Add(q, length)

\* face += vertices.length / 3 + 1 (and the same for texture and uvs)
Relative(q, length) == Add(q, length + 3)

\* list.push(x); if (i > 3) { list.push(list[list.length - 4]);
\*                            list.push(list[list.length - 3]) }
PushCorner(list, x, i) ==
  LET l1 == Append(list, x)
      l2 == Append(l1, At(l1, Len(l1) - 4))
      l3 == Append(l2, At(l2, Len(l2) - 3))
  IN IF i > 3 THEN l3 ELSE l1

FaceTokenUvWhenGiven(spl, i, st) ==
  LET face == parseInt(spl, 1)
      texture == parseInt(spl, 2)
  IN IF face.nan THEN st
     ELSE [st EXCEPT !.faces = PushCorner(@, Add(face, -3), i),
                     !.uvfaces = IF texture.nan THEN @
                                 ELSE PushCorner(@, Add(texture, -3), i)]

\* The body of parseFace's loop for the piece arr[i].
FaceToken(spl, i, st) ==
  LET face == parseInt(spl, 1)
      texture == parseInt(spl, 2)
      f == IF face.n3 < 0 THEN Relative(face, Len(st.vertices)) ELSE face
      t == IF ~texture.nan /\ texture.n3 < 0
           THEN Relative(texture, Len(st.uvs)) ELSE texture
  IN IF face.nan THEN st
     ELSE [st EXCEPT !.faces = PushCorner(@, Add(f, -3), i),
                     !.uvfaces = PushCorner(@, Add(t, -3), i)]

\* for (let i = 1; i < arr.length - 1; i++) ...
RECURSIVE FaceLoop(_, _, _)
FaceLoop(arr, i, st) ==
  IF i >= Len(arr) - 1 THEN st
  ELSE FaceLoop(arr, i + 1, FaceToken(arr[i + 1], i, st))

parseFace(arr, st) == FaceLoop(arr, 1, st)

\* The loop of parseOBJ's reader.onload over the lines, from line i on.
RECURSIVE ObjLoop(_, _, _)
ObjLoop(splice, i, st) ==
  IF i > Len(splice) THEN st
  ELSE LET identifier == splice[i].id
           arr == splice[i].toks
       IN ObjLoop(splice, i + 1,
            CASE identifier = "v " -> [st EXCEPT !.vertices = parseVertex(arr, @)]
              [] identifier = "vt" -> [st EXCEPT !.uvs = parseUV(arr, @)]
              [] identifier = "f " -> parseFace(arr, st)
              [] OTHER -> st)

\* The lists of reader.onload when its loop has ended.
ObjParse(splice) ==
  ObjLoop(splice, 1, [vertices |-> <<>>, faces |-> <<>>, uvs |-> <<>>, uvfaces |-> <<>>])

\* viewer.display(new Float32Array(vertices), null, new Uint32Array(faces),
\*                null, new Float32Array(uvfaces))
ObjDisplay(st) ==
  [vertices |-> st.vertices, hasIndices |-> TRUE,
   faceIndices |-> [k \in DOMAIN st.faces |-> ToUint32(st.faces[k])],
   hasColors |-> FALSE, hasUvs |-> TRUE, uvs |-> st.uvfaces, by |-> "obj",
   triCount |-> 0, batches |-> <<>>]

\* ---------------------------------------------------------------- Controller
\* An angle in radians is held as a whole number of sixtieths of a degree:
\* x * Math.PI / 180 is 60 * x.  A frame count is held as twice its value, so
\* that half frames can be passed.
Radians(deg) == 60 * deg

\* Math.floor(transitionFrames)
Floor(frames2) == frames2 \div 2

Angles(x, y, z) == [finite |-> TRUE, x |-> x, y |-> y, z |-> z]

\* A rotation one of whose angles is Infinity or NaN.
NotFinite == [finite |-> FALSE, x |-> 0, y |-> 0, z |-> 0]

\* target.rotation with x, y and z null, and target.color null
NoRotation == [set |-> FALSE, x |-> 0, y |-> 0, z |-> 0]
NoColor == [set |-> FALSE, color |-> 0]

\* The material color display gives a new object (the color attribute of the
\* container), as the number getHex returns.
ContainerColor(v) == 100

\* Controller.setObject(object): this.objects.push(object)
setObject(objs, v) == Append(objs, [color |-> ContainerColor(v)])

\* n * (1 / d) for d /= 0, exact when d divides n.
Quot(n, d) == IF d > 0 THEN n \div d ELSE 0 - (n \div (0 - d))

\* a.lerp(b, 1 / factor), one component: a + (b - a) * alpha
Lerp(a, b, factor) == a + Quot(b - a, factor)

\* The rotation part of Controller.update for a controller with an object:
\* c holds rotation, rotationSpeed, the rotation factor and target.rotation.
\* The branch taken while a component of target.rotation is set.
Interpolate(c) ==
  LET f == c.factor - 1
      t == c.target
      r == IF f = 0 \/ ~c.rotation.finite THEN NotFinite
           ELSE Angles(Lerp(c.rotation.x, t.x, f), Lerp(c.rotation.y, t.y, f),
                       Lerp(c.rotation.z, t.z, f))
      reached == r.finite /\ r.x = t.x /\ r.y = t.y /\ r.z = t.z
  IN [c EXCEPT !.factor = f, !.rotation = r,
               !.target = IF reached THEN NoRotation ELSE @]

\* The else branch: container.rotateX/Y/Z(rotationSpeed.x/y/z).
Spin(c) ==
  [c EXCEPT !.rotation =
     IF @.finite
     THEN Angles(@.x + c.rotationSpeed.x, @.y + c.rotationSpeed.y,
                 @.z + c.rotationSpeed.z)
     ELSE @]

UpdateRotationSpinning(c) == IF c.target.set THEN Spin(Interpolate(c)) ELSE Spin(c)

UpdateRotation(c) == IF c.target.set THEN Interpolate(c) ELSE Spin(c)

\* transitionFactors.color after the decrement and the test against 1
ColorFactor(f) == IF f - 1 < 1 THEN 1 ELSE f - 1

\* The body of update's loop over this.objects for object i: c holds the
\* objects, the color factor and target.color.
ColorStep(c, i) ==
  IF ~c.target.set THEN c
  ELSE IF c.objects[i].color = c.target.color THEN [c EXCEPT !.target = NoColor]
  ELSE LET f == ColorFactor(c.factor)
       IN [c EXCEPT !.factor = f,
                    !.objects[i].color = Lerp(@, c.target.color, f)]

\* for (let i = 0; i < this.objects.length; i++) ..., from object i on.
RECURSIVE UpdateColor(_, _)
UpdateColor(c, i) ==
  IF i > Len(c.objects) THEN c ELSE UpdateColor(ColorStep(c, i), i + 1)

\* transitionFactors.rotation as transitionRotation sets it
RotationFactor(frames2) == Floor(frames2) + 1

ColorFactorSameFrame(frames2) == Floor(frames2)

\* transitionFactors.color as transitionColor sets it
TransitionColorFactor(frames2) == Floor(frames2) + 1

SpeedSwapped(x, y, z) == [x |-> Radians(x), z |-> Radians(y), y |-> Radians(z)]

\* Controller.rotate: the speeds, per update, for x, y, z degrees
Speed(x, y, z) == [x |-> Radians(x), y |-> Radians(y), z |-> Radians(z)]

\* target.rotation as transitionRotation(x, y, z, frames) sets it
TargetRotation(x, y, z) ==
  [set |-> TRUE, x |-> Radians(x), z |-> Radians(y), y |-> Radians(z)]

\* ------------------------------------------------------------ the machine
NoLoads == [sniff |-> 0, ascii |-> 0, binary |-> 0, obj |-> 0]

NoRequest ==
  [op |-> "none", x |-> 0, y |-> 0, z |-> 0, color |-> 0, frames2 |-> 0,
   pending |-> FALSE, loaded |-> 0, rotation |-> Angles(0, 0, 0),
   speed |-> [x |-> 0, y |-> 0, z |-> 0], colors |-> <<>>]

\* What src, file and text hold for an element the document does not have.
Absent == Container(<< <<"m">> >>, JunkFile(10, 2), <<>>)

\* The document before DOMContentLoaded, with the elements doc whose
\* containers are among cs: packit.viewers is empty and nothing was requested.
\* Viewer.constructor: both flags false; nothing loaded, shown or reported.
\* Controller.constructor: no object, speeds 0, factors 1, targets null.
Start(doc, cs) ==
  /\ document = doc
  /\ \E c \in [doc -> cs] :
       /\ src = [v \in Viewers |-> IF v \in doc THEN c[v].src ELSE Absent.src]
       /\ file = [v \in Viewers |-> IF v \in doc THEN c[v].file ELSE Absent.file]
       /\ text = [v \in Viewers |-> IF v \in doc THEN c[v].text ELSE Absent.text]
  /\ objects = [v \in Viewers |-> <<>>]
  /\ rotation = [v \in Viewers |-> Angles(0, 0, 0)]
  /\ rotationSpeed = [v \in Viewers |-> [x |-> 0, y |-> 0, z |-> 0]]
  /\ transitionFactors = [v \in Viewers |-> [color |-> 1, rotation |-> 1]]
  /\ target = [v \in Viewers |-> [color |-> NoColor, rotation |-> NoRotation]]
  /\ updates = [v \in Viewers |-> 0]
  /\ apiCalls = [v \in Viewers |-> 0]
  /\ rotReq = [v \in Viewers |-> NoRequest]
  /\ rotLog = [v \in Viewers |-> <<>>]
  /\ colReq = [v \in Viewers |-> NoRequest]
  /\ colLog = [v \in Viewers |-> <<>>]
  /\ visited = {}
  /\ viewers = {}
  /\ xhr = [v \in Viewers |-> "unsent"]
  /\ objCalls = [v \in Viewers |-> 0]
  /\ objRuns = [v \in Viewers |-> 0]
  /\ attemptedASCII_STL = [v \in Viewers |-> FALSE]
  /\ attemptedBINARY_STL = [v \in Viewers |-> FALSE]
  /\ pending = [v \in Viewers |-> NoLoads]
  /\ timers = 0
  /\ displayed = [v \in Viewers |-> <<>>]
  /\ calls = [v \in Viewers |-> 0]
  /\ asciiRuns = [v \in Viewers |-> 0]
  /\ binaryRuns = [v \in Viewers |-> 0]
  /\ surfaced = [v \in Viewers |-> <<>>]
  /\ lateCalls = [v \in Viewers |-> 0]
  /\ clock = 0

\* A document with one element, of any container of the model.
Init == Start({"v1"}, Containers)

\* A document with two elements.
InitTwo == Start(Viewers, PairContainers)

\* A document with one element, an OBJ file of one vertex.
InitControl == Start({"v1"}, ControlContainers)

stl_ascii_unguarded(attempted, loads) == [loads EXCEPT !.ascii = @ + 1]

\* stl_ascii(data, viewer) up to reader.readAsText(data): the loads in flight
\* afterwards, given the flag it tests.
stl_ascii(attempted, loads) ==
  IF attempted THEN loads ELSE [loads EXCEPT !.ascii = @ + 1]

\* stl_binary(data, viewer) up to reader.readAsArrayBuffer(data).
stl_binary(attempted, loads) ==
  IF attempted THEN loads ELSE [loads EXCEPT !.binary = @ + 1]

AsciiCatchFlagKept(old) == old

SetFlagOfAll(flags, v, value) == [w \in Viewers |-> value]

\* viewer.attemptedASCII_STL = value, or attemptedBINARY_STL: the flag is a
\* field of the Viewer created for v.
SetFlag(flags, v, value) == [flags EXCEPT ![v] = value]

\* The value attemptedASCII_STL has after stl_ascii's catch block.
AsciiCatchFlag(old) == TRUE

\* The value attemptedBINARY_STL has after stl_binary's catch block.
BinaryCatchFlag(old) == TRUE

CatchOrNot(flags, v, threw, value) == SetFlag(flags, v, value)

\* try { ... } catch(e) { viewer.attempted..._STL = value; ... }: the flag is
\* assigned in the catch block and nowhere in the try block.
CatchOnly(flags, v, threw, value) ==
  IF threw THEN SetFlag(flags, v, value) ELSE flags

\* packit.readFrom(container) for a container of the document.
ReadFrom(v) ==
  /\ v \in document
  /\ v \notin visited
  /\ visited' = visited \cup {v}
  /\ IF Extension(src[v]) \in VALID_EXTENSIONS
     THEN /\ viewers' = viewers \cup {v}       \* packit.createViewer
          /\ attemptedASCII_STL' = SetFlag(attemptedASCII_STL, v, FALSE)
          /\ attemptedBINARY_STL' = SetFlag(attemptedBINARY_STL, v, FALSE)
          /\ xhr' = [xhr EXCEPT ![v] = "sent"]  \* xhttp.send()
     ELSE UNCHANGED <<viewers, attemptedASCII_STL, attemptedBINARY_STL, xhr>>
  /\ clock' = clock + 1
  /\ UNCHANGED <<control, objects, document, src, file, text, objCalls, objRuns,
                 pending, timers, displayed, calls,
                 asciiRuns, binaryRuns, surfaced, lateCalls>>

\* packit.parseSTL(data, viewer): slice the first six bytes and read them.
\* What the call does to everything but the request.
ParseSTL(v) ==
  /\ calls[v] < MaxCalls
  /\ calls' = [calls EXCEPT ![v] = @ + 1]
  /\ pending' = [pending EXCEPT ![v].sniff = @ + 1]
  /\ lateCalls' = [lateCalls EXCEPT ![v] =
       IF attemptedASCII_STL[v] /\ attemptedBINARY_STL[v] THEN @ + 1 ELSE @]
  /\ clock' = clock + 1
  /\ UNCHANGED <<control, objects, document, src, file, text, visited, viewers, objCalls, objRuns,
                 attemptedASCII_STL, attemptedBINARY_STL, timers, displayed,
                 asciiRuns, binaryRuns, surfaced>>

\* packit.parseOBJ(data, viewer): read the data as text.
ParseOBJ(v) ==
  /\ objCalls[v] < MaxCalls
  /\ objCalls' = [objCalls EXCEPT ![v] = @ + 1]
  /\ pending' = [pending EXCEPT ![v].obj = @ + 1]
  /\ clock' = clock + 1
  /\ UNCHANGED <<control, objects, document, src, file, text, visited, viewers, objRuns,
                 attemptedASCII_STL, attemptedBINARY_STL, timers, displayed,
                 calls, asciiRuns, binaryRuns, surfaced, lateCalls>>

\* xhttp.onreadystatechange with readyState 4 and status 200: the switch on
\* the extension.
XhrLoad(v) ==
  /\ xhr[v] = "sent"
  /\ xhr' = [xhr EXCEPT ![v] = "done"]
  /\ CASE Extension(src[v]) = <<"s", "t", "l">> -> ParseSTL(v)
       [] Extension(src[v]) = <<"o", "b", "j">> -> ParseOBJ(v)

\* xhttp.onreadystatechange with readyState 4 and another status: nothing.
XhrFail(v) ==
  /\ xhr[v] = "sent"
  /\ xhr' = [xhr EXCEPT ![v] = "failed"]
  /\ clock' = clock + 1
  /\ UNCHANGED <<control, objects, document, src, file, text, visited, viewers, objCalls, objRuns,
                 attemptedASCII_STL, attemptedBINARY_STL, pending, timers,
                 displayed, calls, asciiRuns, binaryRuns, surfaced, lateCalls>>

\* The page calls packit.parseSTL again with the blob and the viewer of a
\* container that was loaded.
CallParseSTL(v) ==
  /\ xhr[v] = "done"
  /\ Extension(src[v]) = <<"s", "t", "l">>
  /\ UNCHANGED xhr
  /\ ParseSTL(v)

\* The page calls packit.parseOBJ again in the same way.
CallParseOBJ(v) ==
  /\ xhr[v] = "done"
  /\ Extension(src[v]) = <<"o", "b", "j">>
  /\ UNCHANGED xhr
  /\ ParseOBJ(v)

\* reader.onload of parseOBJ: parse every line, then display.
ObjLoad(v) ==
  /\ pending[v].obj > 0
  /\ pending' = [pending EXCEPT ![v].obj = @ - 1]
  /\ displayed' = [displayed EXCEPT ![v] = Append(@, ObjDisplay(ObjParse(text[v])))]
  /\ objects' = [objects EXCEPT ![v] = setObject(@, v)]
  /\ objRuns' = [objRuns EXCEPT ![v] = @ + 1]
  /\ clock' = clock + 1
  /\ UNCHANGED <<control, document, src, file, text, visited, viewers, xhr, objCalls,
                 attemptedASCII_STL, attemptedBINARY_STL, timers, calls,
                 asciiRuns, binaryRuns, surfaced, lateCalls>>

\* reader.onload of parseSTL: choose the sub-parser by the indicator.
SniffLoad(v) ==
  /\ pending[v].sniff > 0
  /\ LET loads == [pending[v] EXCEPT !.sniff = @ - 1]
     IN pending' = [pending EXCEPT ![v] =
          IF Includes(Chars(file[v].head), <<"s", "o", "l", "i", "d">>)
          THEN stl_ascii(attemptedASCII_STL[v], loads)
          ELSE stl_binary(attemptedBINARY_STL[v], loads)]
  /\ clock' = clock + 1
  /\ UNCHANGED <<control, objects, document, src, file, text, visited, viewers, xhr, objCalls, objRuns,
                 attemptedASCII_STL, attemptedBINARY_STL, timers, displayed,
                 calls, asciiRuns, binaryRuns, surfaced, lateCalls>>

\* reader.onload of stl_ascii: the try block, and the catch block when it threw.
AsciiLoad(v) ==
  /\ pending[v].ascii > 0
  /\ \E st \in {AsciiTry(file[v], clock + 1)} :
     LET loads == [pending[v] EXCEPT !.ascii = @ - 1]
     IN /\ attemptedASCII_STL' =
             CatchOnly(attemptedASCII_STL, v, st.threw,
                       AsciiCatchFlag(attemptedASCII_STL[v]))
        /\ pending' = [pending EXCEPT ![v] =
             IF st.threw THEN stl_binary(attemptedBINARY_STL[v], loads) ELSE loads]
        /\ displayed' = [displayed EXCEPT ![v] = @ \o st.shown]
        /\ objects' = [objects EXCEPT ![v] =
             IF st.shown = <<>> THEN @ ELSE setObject(@, v)]
        /\ timers' = timers + st.timers
  /\ asciiRuns' = [asciiRuns EXCEPT ![v] = @ + 1]
  /\ clock' = clock + 1
  /\ UNCHANGED <<control, document, src, file, text, visited, viewers, xhr, objCalls, objRuns,
                 attemptedBINARY_STL, calls, binaryRuns, surfaced, lateCalls>>

\* reader.onload of stl_binary.
BinaryLoad(v) ==
  /\ pending[v].binary > 0
  /\ \E st \in {BinaryTry(file[v], clock + 1)} :
     LET loads == [pending[v] EXCEPT !.binary = @ - 1]
     IN /\ attemptedBINARY_STL' =
             CatchOnly(attemptedBINARY_STL, v, st.threw,
                       BinaryCatchFlag(attemptedBINARY_STL[v]))
        /\ pending' = [pending EXCEPT ![v] =
             IF st.threw THEN stl_ascii(attemptedASCII_STL[v], loads) ELSE loads]
        /\ displayed' = [displayed EXCEPT ![v] = @ \o st.shown]
        /\ objects' = [objects EXCEPT ![v] =
             IF st.shown = <<>> THEN @ ELSE setObject(@, v)]
        /\ timers' = timers + st.timers
  /\ binaryRuns' = [binaryRuns EXCEPT ![v] = @ + 1]
  /\ clock' = clock + 1
  /\ UNCHANGED <<control, document, src, file, text, visited, viewers, xhr, objCalls, objRuns,
                 attemptedASCII_STL, calls, asciiRuns, surfaced, lateCalls>>

\* A timer set by setTimeout(undefined, TIMEOUT_CONSTANT) fires: nothing runs.
TimerFire ==
  /\ timers > 0
  /\ timers' = timers - 1
  /\ clock' = clock + 1
  /\ UNCHANGED <<control, objects, document, src, file, text, visited, viewers, xhr, objCalls, objRuns,
                 attemptedASCII_STL, attemptedBINARY_STL, pending, displayed,
                 calls, asciiRuns, binaryRuns, surfaced, lateCalls>>

\* ------------------------------------------------- the Controller's methods
\* The call counts as one more call of a control method of v's viewer.
Api(v) ==
  /\ v \in viewers
  /\ apiCalls[v] < MaxApi
  /\ apiCalls' = [apiCalls EXCEPT ![v] = @ + 1]
  /\ UNCHANGED <<loader, objects, rotation, updates>>

RotationRequest(v, op, a, frames2) ==
  [NoRequest EXCEPT !.op = op, !.x = a[1], !.y = a[2], !.z = a[3],
                    !.frames2 = frames2, !.pending = target[v].rotation.set,
                    !.loaded = Len(objects[v]), !.rotation = rotation[v],
                    !.speed = rotationSpeed[v]]

ColorRequest(v, op, color, frames2) ==
  [NoRequest EXCEPT !.op = op, !.color = color, !.frames2 = frames2,
                    !.pending = target[v].color.set, !.loaded = Len(objects[v]),
                    !.colors = objects[v]]

\* viewer.rotate(x, y, z)
Rotate(v) ==
  /\ Api(v)
  /\ \E a \in Speeds :
       /\ rotationSpeed' = [rotationSpeed EXCEPT ![v] = Speed(a[1], a[2], a[3])]
       /\ rotReq' = [rotReq EXCEPT ![v] = RotationRequest(v, "rotate", a, 0)]
  /\ rotLog' = [rotLog EXCEPT ![v] = <<>>]
  /\ UNCHANGED <<transitionFactors, target, colReq, colLog>>

\* viewer.stopRotation()
StopRotation(v) ==
  /\ Api(v)
  /\ rotationSpeed' = [rotationSpeed EXCEPT ![v] = [x |-> 0, y |-> 0, z |-> 0]]
  /\ rotReq' = [rotReq EXCEPT ![v] = RotationRequest(v, "stop", <<0, 0, 0>>, 0)]
  /\ rotLog' = [rotLog EXCEPT ![v] = <<>>]
  /\ UNCHANGED <<transitionFactors, target, colReq, colLog>>

\* Controller.transitionRotation(x, y, z, transitionFrames), a = <<x, y, z>>
transitionRotation(v, op, a, frames2) ==
  /\ target' = [target EXCEPT ![v].rotation = TargetRotation(a[1], a[2], a[3])]
  /\ transitionFactors' = [transitionFactors EXCEPT ![v].rotation =
       RotationFactor(frames2)]
  /\ rotReq' = [rotReq EXCEPT ![v] = RotationRequest(v, op, a, frames2)]
  /\ rotLog' = [rotLog EXCEPT ![v] = <<>>]
  /\ UNCHANGED <<rotationSpeed, colReq, colLog>>

\* viewer.setRotation(x, y, z): a transition of 1 frame
SetRotation(v) ==
  /\ Api(v)
  /\ \E a \in Targets : transitionRotation(v, "set", a, 2)

\* viewer.transitionRotation(x, y, z, frames)
TransitionRotation(v) ==
  /\ Api(v)
  /\ \E a \in Targets, frames2 \in FrameCounts :
       transitionRotation(v, "transition", a, frames2)

\* Controller.transitionColor(color, transitionFrames)
transitionColor(v, op, color, frames2) ==
  /\ target' = [target EXCEPT ![v].color = [set |-> TRUE, color |-> color]]
  /\ transitionFactors' = [transitionFactors EXCEPT ![v].color =
       TransitionColorFactor(frames2)]
  /\ colReq' = [colReq EXCEPT ![v] = ColorRequest(v, op, color, frames2)]
  /\ colLog' = [colLog EXCEPT ![v] = <<>>]
  /\ UNCHANGED <<rotationSpeed, rotReq, rotLog>>

\* viewer.setColor(color): a transition of 1 frame
SetColor(v) ==
  /\ Api(v)
  /\ \E color \in Colors : transitionColor(v, "set", color, 2)

\* viewer.transitionColor(color, frames)
TransitionColor(v) ==
  /\ Api(v)
  /\ \E color \in Colors, frames2 \in FrameCounts :
       transitionColor(v, "transition", color, frames2)

\* Controller.update(), called by animate once per animation frame from the
\* construction of the viewer on.
Update(v) ==
  /\ v \in viewers
  /\ updates[v] < MaxUpdates
  /\ updates' = [updates EXCEPT ![v] = @ + 1]
  /\ \E r \in {UpdateRotation([rotation |-> rotation[v],
                                rotationSpeed |-> rotationSpeed[v],
                                factor |-> transitionFactors[v].rotation,
                                target |-> target[v].rotation])},
        c \in {UpdateColor([objects |-> objects[v],
                            factor |-> transitionFactors[v].color,
                            target |-> target[v].color], 1)} :
       LET loaded == Len(objects[v]) > 0
           rot == IF loaded THEN r.rotation ELSE rotation[v]
           tgt == IF loaded THEN [color |-> c.target, rotation |-> r.target]
                  ELSE target[v]
           fac == IF loaded THEN [color |-> c.factor, rotation |-> r.factor]
                  ELSE transitionFactors[v]
       IN /\ rotation' = [rotation EXCEPT ![v] = rot]
          /\ target' = [target EXCEPT ![v] = tgt]
          /\ transitionFactors' = [transitionFactors EXCEPT ![v] = fac]
          /\ objects' = [objects EXCEPT ![v] = c.objects]
          /\ rotLog' = [rotLog EXCEPT ![v] = Append(@,
               [rotation |-> rot, pending |-> tgt.rotation.set,
                factor |-> fac.rotation, loaded |-> Len(objects[v])])]
          /\ colLog' = [colLog EXCEPT ![v] = Append(@,
               [colors |-> c.objects, pending |-> tgt.color.set,
                factor |-> fac.color, loaded |-> Len(objects[v])])]
  /\ UNCHANGED <<loader, rotationSpeed, apiCalls, rotReq, colReq>>

Next ==
  \/ \E v \in Viewers : ReadFrom(v)
  \/ \E v \in Viewers : XhrLoad(v)
  \/ \E v \in Viewers : XhrFail(v)
  \/ \E v \in Viewers : CallParseSTL(v)
  \/ \E v \in Viewers : CallParseOBJ(v)
  \/ \E v \in Viewers : ObjLoad(v)
  \/ \E v \in Viewers : SniffLoad(v)
  \/ \E v \in Viewers : AsciiLoad(v)
  \/ \E v \in Viewers : BinaryLoad(v)
  \/ TimerFire

Spec == Init /\ [][Next]_vars

\* Two elements loading side by side, each by the one parse call readFrom
\* makes for it.
NextTwo ==
  \/ \E v \in Viewers : ReadFrom(v)
  \/ \E v \in Viewers : XhrLoad(v)
  \/ \E v \in Viewers : XhrFail(v)
  \/ \E v \in Viewers : ObjLoad(v)
  \/ \E v \in Viewers : SniffLoad(v)
  \/ \E v \in Viewers : AsciiLoad(v)
  \/ \E v \in Viewers : BinaryLoad(v)
  \/ TimerFire

SpecTwo == InitTwo /\ [][NextTwo]_vars

\* The page controlling the viewer of an OBJ file while it loads and after:
\* the steps of the one parse call readFrom makes for that file, and the
\* Controller's methods.
NextControl ==
  \/ \E v \in Viewers : ReadFrom(v)
  \/ \E v \in Viewers : XhrLoad(v)
  \/ \E v \in Viewers : XhrFail(v)
  \/ \E v \in Viewers : ObjLoad(v)
  \/ \E v \in Viewers : Rotate(v)
  \/ \E v \in Viewers : StopRotation(v)
  \/ \E v \in Viewers : SetRotation(v)
  \/ \E v \in Viewers : TransitionRotation(v)
  \/ \E v \in Viewers : SetColor(v)
  \/ \E v \in Viewers : TransitionColor(v)
  \/ \E v \in Viewers : Update(v)

SpecControl == InitControl /\ [][NextControl]_vars

\* ================================================================== claims
Quiet(v) == pending[v] = NoLoads

\* A binary blob of exactly 84 + 50 * n bytes whose count field is n.
ExactBinary(f) == f.kind = "binary" /\ f.cut = 0 /\ f.recs = f.n

\* The display calls made for v by one of the two sub-parsers.
ShownBy(v, by) == {i \in DOMAIN displayed[v] : displayed[v][i].by = by}

\* C1: for a well-formed ASCII STL of N triangles (any N, also N < 500), once
\* a parseSTL call has run to its end the mesh was displayed, and every display
\* got the 9N coordinates of the vertex lines in file order, with no indices
\* and no uvs.
C1_AsciiMeshDisplayed ==
  \A v \in Viewers :
    (file[v] \in ValidAscii /\ calls[v] >= 1 /\ Quiet(v)) =>
      /\ Len(displayed[v]) >= 1
      /\ \A i \in DOMAIN displayed[v] :
           /\ displayed[v][i].vertices = Mesh(file[v])
           /\ ~displayed[v][i].hasIndices
           /\ ~displayed[v][i].hasUvs

\* C2: for a binary STL of exactly 84 + 50N bytes declaring N triangles, every
\* run of stl_binary's handler displays the 9N vertex-position floats of the
\* records in order, for every N (also N < 500), and stl_binary never fails
\* over to stl_ascii.
C2_BinaryMeshDisplayed ==
  \A v \in Viewers :
    ExactBinary(file[v]) =>
      /\ Cardinality(ShownBy(v, "binary")) = binaryRuns[v]
      /\ \A i \in ShownBy(v, "binary") :
           /\ displayed[v][i].vertices = Mesh(file[v])
           /\ Len(displayed[v][i].vertices) = 9 * file[v].n
      /\ ~attemptedBINARY_STL[v]

C2_Witness ==
  \E v \in Viewers :
    /\ ExactBinary(file[v])
    /\ file[v].n = PER_BATCH - 1
    /\ binaryRuns[v] >= 1
    /\ Len(displayed[v]) >= 1

\* C3: when stl_ascii gets a valid binary STL (its header starts with "solid")
\* with both flags false, the one parseSTL call ends with attemptedASCII_STL
\* set, the text read once, and exactly one display, of the binary-decoded
\* vertices.
C3_SolidBinaryRecovered ==
  \A v \in Viewers :
    (file[v] \in SolidBinary /\ calls[v] = 1 /\ Quiet(v)) =>
      /\ attemptedASCII_STL[v]
      /\ asciiRuns[v] = 1
      /\ Len(displayed[v]) = 1
      /\ displayed[v][1].by = "binary"
      /\ displayed[v][1].vertices = Mesh(file[v])

\* C4: once both attempt flags of a viewer are true, an error has been
\* surfaced to the host.
C4_DoubleFailureSurfaced ==
  \A v \in Viewers :
    (attemptedASCII_STL[v] /\ attemptedBINARY_STL[v]) => surfaced[v] /= <<>>

\* C5: once both flags of a viewer are true, no step changes a flag or starts
\* a new read of the data, and with no earlier load still in flight no step
\* calls viewer.display.
C5_NoOpOnceBothTried ==
  [][\A v \in Viewers :
       (attemptedASCII_STL[v] /\ attemptedBINARY_STL[v]) =>
         /\ attemptedASCII_STL'[v] /\ attemptedBINARY_STL'[v]
         /\ asciiRuns'[v] + pending'[v].ascii = asciiRuns[v] + pending[v].ascii
         /\ binaryRuns'[v] + pending'[v].binary = binaryRuns[v] + pending[v].binary
         /\ (pending[v].ascii = 0 /\ pending[v].binary = 0 =>
               displayed'[v] = displayed[v])]_vars

C5_Witness ==
  \E v \in Viewers :
    /\ attemptedASCII_STL[v] /\ attemptedBINARY_STL[v]
    /\ lateCalls[v] >= 1
    /\ Quiet(v)

\* C6: after one parseSTL call on a viewer whose flags were false, each
\* sub-parser has read the data at most once: at most two parse attempts.
C6_AtMostOnceEach ==
  \A v \in Viewers :
    calls[v] = 1 =>
      /\ asciiRuns[v] + pending[v].ascii <= 1
      /\ binaryRuns[v] + pending[v].binary <= 1

C6_Witness ==
  \E v \in Viewers :
    calls[v] = 1 /\ asciiRuns[v] = 1 /\ binaryRuns[v] = 1 /\ Quiet(v)

\* Whether the declared count of a binary blob asks for more bytes than it has:
\* 84 + 50 * triCount > bufferLength.
CountExceedsBuffer(f) ==
  f.kind = "binary" /\ (ByteLength(f) < 84 \/ f.n > (ByteLength(f) - 84) \div 50)

\* C7: when the declared count is inconsistent with the buffer length, a run
\* of stl_binary's handler sets attemptedBINARY_STL and displays nothing.
C7_InconsistentCountFails ==
  \A v \in Viewers :
    (CountExceedsBuffer(file[v]) /\ binaryRuns[v] >= 1) =>
      /\ attemptedBINARY_STL[v]
      /\ ShownBy(v, "binary") = {}

\* C8: two consecutive 500-triangle batches of a parse run in different host
\* tasks, the later batch in a later one.
C8_BatchesInSeparateTasks ==
  \A v \in Viewers : \A i \in DOMAIN displayed[v] :
    LET b == displayed[v][i].batches
    IN \A k \in 1..(Len(b) - 1) :
         (b[k].count = PER_BATCH /\ b[k + 1].count = PER_BATCH) =>
           b[k].task < b[k + 1].task

\* C9: a parse of N triangles runs floor(N / 500) full batches of 500 and then
\* one batch of N mod 500, handing each index 0..N-1 to getTriangle once, in
\* order.
C9_BatchStructure ==
  \A v \in Viewers : \A i \in ShownBy(v, "ascii") \cup ShownBy(v, "binary") :
    LET b == displayed[v][i].batches
        N == displayed[v][i].triCount
        full == N \div PER_BATCH
    IN /\ Len(b) = full + 1
       /\ \A k \in 1..full :
            b[k].first = (k - 1) * PER_BATCH /\ b[k].calls = PER_BATCH
       /\ b[full + 1].first = full * PER_BATCH
       /\ b[full + 1].calls = N % PER_BATCH

\* C10: in a parse that displays, getTriangle was called with strictly
\* increasing indices, and every index below triCount had been handed to
\* getTriangle before viewer.display was called.
C10_DisplayAfterLastTriangle ==
  \A v \in Viewers : \A i \in DOMAIN displayed[v] :
    LET b == displayed[v][i].batches
        N == displayed[v][i].triCount
    IN /\ \A k \in 1..(Len(b) - 1) : b[k].first + b[k].calls <= b[k + 1].first
       /\ \A t \in 0..(N - 1) :
            \E k \in DOMAIN b : b[k].first <= t /\ t < b[k].first + b[k].calls

C10_Witness ==
  \E v \in Viewers : \E i \in DOMAIN displayed[v] :
    /\ displayed[v][i].triCount = 2 * PER_BATCH + 250
    /\ Len(displayed[v][i].batches) = 3

\* C11: a parseSTL call made with both flags false has displayed at most once,
\* and when it has run to its end it has displayed exactly once unless both
\* sub-parsers failed (the flags are then both true), whatever the number of
\* batches and also after a fallback; over any number of calls there is at
\* most one display per parseSTL call, and exactly one per run of parseOBJ's
\* handler.
C11_DisplayedOncePerSuccess ==
  \A v \in Viewers :
    /\ Len(displayed[v]) <= calls[v] + objRuns[v]
    /\ calls[v] = 0 => Len(displayed[v]) = objRuns[v]
    /\ (calls[v] = 1 /\ Quiet(v)) =>
         Len(displayed[v]) =
           IF attemptedASCII_STL[v] /\ attemptedBINARY_STL[v] THEN 0 ELSE 1

C11_Witness ==
  \E v \in Viewers :
    /\ calls[v] = 1 /\ Quiet(v)
    /\ attemptedASCII_STL[v] /\ ~attemptedBINARY_STL[v]
    /\ Len(displayed[v]) = 1
    /\ displayed[v][1].by = "binary"
    /\ Len(displayed[v][1].batches) = 2

\* The letters a letter of an extension may be written as, in either case.
EitherCase(c) ==
  CASE c = "s" -> {"s", "S"} [] c = "t" -> {"t", "T"} [] c = "l" -> {"l", "L"}
    [] c = "o" -> {"o", "O"} [] c = "b" -> {"b", "B"} [] c = "j" -> {"j", "J"}

\* Whether the last piece of a path is the word w in some letter case.
HasExtension(path, w) ==
  LET e == path[Len(path)]
  IN Len(e) = Len(w) /\ \A k \in DOMAIN w : e[k] \in EitherCase(w[k])

Supported(path) ==
  HasExtension(path, <<"s", "t", "l">>) \/ HasExtension(path, <<"o", "b", "j">>)

\* C12: readFrom on a container whose extension is "stl" or "obj" in some
\* letter case creates the viewer and sends the request; for a container with
\* any other extension there is never a viewer, a request, a parser call, a
\* read in flight or a display.
C12_OnlyStlAndObjAccepted ==
  \A v \in Viewers :
    IF Supported(src[v])
    THEN v \in visited => (v \in viewers /\ xhr[v] /= "unsent")
    ELSE /\ v \notin viewers
         /\ xhr[v] = "unsent"
         /\ calls[v] = 0 /\ objCalls[v] = 0
         /\ asciiRuns[v] = 0 /\ binaryRuns[v] = 0 /\ objRuns[v] = 0
         /\ Quiet(v)
         /\ displayed[v] = <<>>

C12_Witness ==
  \E v \in Viewers :
    /\ src[v][Len(src[v])] = <<"S", "t", "l">>
    /\ v \in viewers
    /\ xhr[v] = "done"
    /\ calls[v] >= 1
    /\ Len(displayed[v]) >= 1

\* Whether the characters begin with the five letters of "solid".
BeginsWithSolid(s) ==
  Len(s) >= 5 /\ \A k \in 1..5 : s[k] = <<"s", "o", "l", "i", "d">>[k]

\* C13: the handler of parseSTL, run for a viewer whose flags are false,
\* starts the ASCII sub-parser (and not the binary one) exactly when the first
\* bytes of the data begin with "solid", and the binary sub-parser (and not
\* the ASCII one) for every other data.
C13_AsciiIffBeginsWithSolid ==
  [][\A v \in Viewers :
       (pending'[v].sniff < pending[v].sniff
          /\ ~attemptedASCII_STL[v] /\ ~attemptedBINARY_STL[v]) =>
         IF BeginsWithSolid(Chars(file[v].head))
         THEN /\ pending'[v].ascii = pending[v].ascii + 1
              /\ pending'[v].binary = pending[v].binary
         ELSE /\ pending'[v].binary = pending[v].binary + 1
              /\ pending'[v].ascii = pending[v].ascii]_vars

\* The display calls made for v by parseOBJ.
ObjShown(v) == ShownBy(v, "obj")

\* The face lines of a text, in order.
FaceLines(t) == SelectSeq(t, LAMBDA l : l.id = "f ")

\* The corner tokens of a face line: the pieces after the marker, without the
\* empty piece a blank before the line break leaves.
CornersOf(l) ==
  SelectSeq(Tail(l.toks), LAMBDA c : ~(Len(c) = 1 /\ ~c[1].num /\ c[1].word = ""))

\* The fan (c1, c2, c3), (c1, c3, c4), ..., (c1, c(n-1), cn) of 0-based
\* indices for the corners c of positive vertex indices.
Fan(c) ==
  [k \in 1..(3 * (Len(c) - 2)) |->
     LET tri == (k - 1) \div 3
         pos == (k - 1) % 3
     IN CASE pos = 0 -> c[1][1].val - 1
          [] pos = 1 -> c[tri + 2][1].val - 1
          [] pos = 2 -> c[tri + 3][1].val - 1]

\* C14: for a text with one face line whose n >= 3 corners are positive vertex
\* indices, the index list displayed is the fan of n - 2 triangles around the
\* first corner, 3(n - 2) indices; for 'f 1 2 3 4' it is [0,1,2, 0,2,3].
C14_FanTriangulation ==
  \A v \in Viewers : \A i \in ObjShown(v) :
    LET fl == FaceLines(text[v])
        c == CornersOf(fl[1])
    IN (Len(fl) = 1 /\ Len(c) >= 3 /\ \A k \in DOMAIN c : c[k][1].num /\ c[k][1].val > 0) =>
         displayed[v][i].faceIndices = Fan(c)

\* The numerals among the pieces, in order.
NumbersOf(toks) ==
  LET nums == SelectSeq(toks, LAMBDA c : c[1].num)
  IN [k \in DOMAIN nums |-> nums[k][1].val]

\* The numerals of the lines of a text that carry the marker id, in file
\* order, the marker piece left out.
RECURSIVE NumbersOfLines(_, _)
NumbersOfLines(t, id) ==
  IF t = <<>> THEN <<>>
  ELSE (IF Head(t).id = id THEN NumbersOf(Tail(Head(t).toks)) ELSE <<>>)
         \o NumbersOfLines(Tail(t), id)

\* The position of the first face line of a text that has one.
FirstFace(t) ==
  CHOOSE p \in DOMAIN t : t[p].id = "f " /\ \A q \in 1..(p - 1) : t[q].id /= "f "

\* C15: in the first face line of a text, read after V whole vertices, a corner
\* -j that parseFace reads among the first three corners, the corners before it
\* being numerals, gives the index V - j at its place in the displayed list.
C15_NegativeIndexFromEnd ==
  \A v \in Viewers : \A i \in ObjShown(v) :
    FaceLines(text[v]) /= <<>> =>
      LET p == FirstFace(text[v])
          arr == text[v][p].toks
          count == Len(NumbersOfLines(SubSeq(text[v], 1, p - 1), "v "))
      IN count % 3 = 0 =>
           \A k \in 1..3 :
             (k < Len(arr) - 1
                /\ (\A m \in 1..k : arr[m + 1][1].num)
                /\ arr[k + 1][1].val < 0) =>
               displayed[v][i].faceIndices[k] = count \div 3 + arr[k + 1][1].val

C15_Witness ==
  \E v \in Viewers : \E i \in ObjShown(v) :
    /\ FaceLines(text[v]) /= <<>>
    /\ text[v][FirstFace(text[v])].toks[2] = Corner(-1)
    /\ Len(NumbersOfLines(SubSeq(text[v], 1, FirstFace(text[v]) - 1), "v ")) = 9
    /\ displayed[v][i].faceIndices[1] = 2

\* C16: for a text with no face line, parseOBJ displays the numerals of the
\* 'v ' lines in file order, the marker left out, with an empty index list.
C16_VerticesOnly ==
  \A v \in Viewers : \A i \in ObjShown(v) :
    FaceLines(text[v]) = <<>> =>
      /\ displayed[v][i].vertices = NumbersOfLines(text[v], "v ")
      /\ displayed[v][i].hasIndices
      /\ displayed[v][i].faceIndices = <<>>

C16_Witness ==
  \E v \in Viewers : \E i \in ObjShown(v) :
    /\ text[v] = <<VLine(<<0, 0, 0>>)>>
    /\ displayed[v][i].vertices = <<0, 0, 0>>
    /\ displayed[v][i].faceIndices = <<>>

\* The numbers a Float32Array holds for a list of whole numbers.
Floats(xs) == [k \in DOMAIN xs |-> Third(3 * xs[k])]

\* C17: parseOBJ passes to viewer.display, as uvs, the numerals of the 'vt'
\* lines in file order, as vertices the numerals of the 'v ' lines, an index
\* list, and no colors.
C17_UvsAreTheVtNumbers ==
  \A v \in Viewers : \A i \in ObjShown(v) :
    /\ displayed[v][i].hasUvs
    /\ displayed[v][i].uvs = Floats(NumbersOfLines(text[v], "vt"))
    /\ displayed[v][i].vertices = NumbersOfLines(text[v], "v ")
    /\ displayed[v][i].hasIndices
    /\ ~displayed[v][i].hasColors

\* C18: every index parseOBJ displays is at least 0 and smaller than the
\* number of vertices displayed.
C18_IndicesInRange ==
  \A v \in Viewers : \A i \in ObjShown(v) :
    \A k \in DOMAIN displayed[v][i].faceIndices :
      /\ 0 <= displayed[v][i].faceIndices[k]
      /\ 3 * displayed[v][i].faceIndices[k] + 3 <= Len(displayed[v][i].vertices)

\* C19: the length of every vertex array passed to viewer.display, by either
\* STL sub-parser or by parseOBJ, is a multiple of 3.
C19_VertexLengthMultipleOf3 ==
  \A v \in Viewers : \A i \in DOMAIN displayed[v] :
    Len(displayed[v][i].vertices) % 3 = 0

\* C20: in every STL parse that displays, getTriangle was only called with
\* indices 0..triCount-1, and with each of them.
C20_IndicesBelowTriCount ==
  \A v \in Viewers : \A i \in ShownBy(v, "ascii") \cup ShownBy(v, "binary") :
    LET b == displayed[v][i].batches
        N == displayed[v][i].triCount
    IN /\ \A k \in DOMAIN b : b[k].calls > 0 => b[k].first + b[k].calls <= N
       /\ \A t \in 0..(N - 1) :
            \E k \in DOMAIN b : b[k].first <= t /\ t < b[k].first + b[k].calls

\* Whether the line count of the text makes (L - 3) / 7 a whole number that is
\* not negative.
WholeTriCount(f) == TextLines(f) >= 3 /\ (TextLines(f) - 3) % 7 = 0

\* C21: a run of stl_ascii's handler on a text whose triangle count passed the
\* check leaves attemptedASCII_STL as it was and does not start stl_binary,
\* whatever happens while the triangle records are processed.
C21_OnlyStructuralMismatchFallsBack ==
  [][\A v \in Viewers :
       (asciiRuns'[v] = asciiRuns[v] + 1 /\ WholeTriCount(file[v])) =>
         /\ attemptedASCII_STL'[v] = attemptedASCII_STL[v]
         /\ pending'[v].binary = pending[v].binary]_vars

\* C22: a sub-parser that failed for a viewer has displayed nothing for it,
\* and when both failed nothing at all was displayed.
C22_NoDisplayFromFailedAttempt ==
  \A v \in Viewers :
    /\ attemptedASCII_STL[v] => ShownBy(v, "ascii") = {}
    /\ attemptedBINARY_STL[v] => ShownBy(v, "binary") = {}
    /\ (attemptedASCII_STL[v] /\ attemptedBINARY_STL[v]) => displayed[v] = <<>>

\* stl_binary failed in its second loop, 550 triangles written, then
\* stl_ascii failed too.
C22_Witness ==
  \E v \in Viewers :
    /\ file[v] = BinaryFile(PER_BATCH + 100, PER_BATCH + 50, 14, 1, "binary", 3)
    /\ binaryRuns[v] >= 1 /\ asciiRuns[v] >= 1
    /\ attemptedASCII_STL[v] /\ attemptedBINARY_STL[v]
    /\ Quiet(v)
    /\ displayed[v] = <<>>

\* The orientation x, y, z degrees about the x, y and z axes.
Degrees(x, y, z) == Angles(Radians(x), Radians(y), Radians(z))

\* v's last rotation call was a transition of at least one frame, made with
\* an object loaded and a finite orientation.
RotationTransition(v) ==
  /\ rotReq[v].op \in {"set", "transition"}
  /\ rotReq[v].frames2 >= 2
  /\ rotReq[v].frames2 % 2 = 0
  /\ rotReq[v].loaded >= 1
  /\ rotReq[v].rotation.finite

\* C23: after transitionRotation(x, y, z, frames) with frames >= 1 and a
\* loaded object, the rotation is x, y, z degrees about the x, y, z axes after
\* exactly `frames` updates, it moved there by equal steps, and the pending
\* target is cleared in that update and not before.
C23_RotationReachedInFrames ==
  \A v \in Viewers :
    RotationTransition(v) =>
      LET n == Floor(rotReq[v].frames2)
          goal == Degrees(rotReq[v].x, rotReq[v].y, rotReq[v].z)
          from == rotReq[v].rotation
          at(k) == IF k = 0 THEN from ELSE rotLog[v][k].rotation
      IN /\ \A k \in 1..Len(rotLog[v]) :
              /\ k < n /\ from # goal => rotLog[v][k].pending /\ at(k) # goal
              /\ k <= n => /\ at(k).finite
                           /\ n * (at(k).x - at(k - 1).x) = goal.x - from.x
                           /\ n * (at(k).y - at(k - 1).y) = goal.y - from.y
                           /\ n * (at(k).z - at(k - 1).z) = goal.z - from.z
              /\ k = n => at(k) = goal /\ ~rotLog[v][k].pending

\* v's last color call was a transition of at least one whole frame, made
\* with a single object loaded.
ColorTransition(v) ==
  /\ colReq[v].op \in {"set", "transition"}
  /\ colReq[v].frames2 >= 2
  /\ colReq[v].frames2 % 2 = 0
  /\ colReq[v].loaded = 1

C25_StopAndRotate ==
  \A v \in Viewers :
    \A k \in 1..Len(rotLog[v]) :
      LET before == IF k = 1 THEN rotReq[v].rotation ELSE rotLog[v][k - 1].rotation
          wasPending == IF k = 1 THEN rotReq[v].pending ELSE rotLog[v][k - 1].pending
          after == rotLog[v][k].rotation
      IN /\ rotReq[v].op = "stop" /\ ~wasPending => after = before
         /\ (rotReq[v].op = "rotate" /\ ~wasPending /\ rotLog[v][k].loaded >= 1) =>
              /\ after.finite
              /\ after.x - before.x = Radians(rotReq[v].x)
              /\ after.y - before.y = Radians(rotReq[v].y)
              /\ after.z - before.z = Radians(rotReq[v].z)

C25_Witness ==
  \E v \in Viewers :
    /\ rotReq[v].op = "stop"
    /\ rotReq[v].speed = Speed(1, 2, 3)
    /\ rotReq[v].rotation = Degrees(1, 2, 3)
    /\ ~rotReq[v].pending
    /\ Len(rotLog[v]) = 2
    /\ rotLog[v][2].loaded >= 1
    /\ rotLog[v][2].rotation = Degrees(1, 2, 3)

\* A reader callback of one of w's sub-parsers runs in this step.
SubParserStep(w) == asciiRuns'[w] # asciiRuns[w] \/ binaryRuns'[w] # binaryRuns[w]

\* C26: the viewer readFrom creates has both flags false, and a step of one
\* viewer's sub-parser (its failure and fallback included) leaves the flags,
\* the loads in flight and the displayed meshes of every other viewer as they
\* were.
C26_FlagsPerRequest ==
  [][/\ \A v \in Viewers :
          (v \in viewers' /\ v \notin viewers) =>
            ~attemptedASCII_STL'[v] /\ ~attemptedBINARY_STL'[v]
     /\ \A w \in Viewers :
          SubParserStep(w) =>
            \A v \in Viewers \ {w} :
              /\ attemptedASCII_STL'[v] = attemptedASCII_STL[v]
              /\ attemptedBINARY_STL'[v] = attemptedBINARY_STL[v]
              /\ pending'[v] = pending[v]
              /\ displayed'[v] = displayed[v]
              /\ objects'[v] = objects[v]]_vars

\* One viewer has failed as ASCII and shown its mesh by the fallback while the
\* binary load of the other is still in flight with both flags false.
C26_Witness ==
  \E v, w \in Viewers :
    /\ v # w
    /\ {v, w} \subseteq viewers
    /\ attemptedASCII_STL[w] /\ ~attemptedBINARY_STL[w]
    /\ displayed[w] # <<>>
    /\ pending[v].binary > 0
    /\ ~attemptedASCII_STL[v] /\ ~attemptedBINARY_STL[v]
    /\ displayed[v] = <<>>

\* C27: when the line count L of the text does not make (L - 3) / 7 a
\* non-negative integer, the reader callback of stl_ascii makes no getTriangle
\* call, displays nothing, sets attemptedASCII_STL, and calls stl_binary for
\* the same viewer (which starts a read unless attemptedBINARY_STL is set).
C27_StructuralMismatchFallsBack ==
  [][\A v \in Viewers :
       (asciiRuns'[v] = asciiRuns[v] + 1 /\ ~WholeTriCount(file[v])) =>
         /\ AsciiTry(file[v], clock').batches = <<>>
         /\ displayed'[v] = displayed[v]
         /\ attemptedASCII_STL'[v]
         /\ pending'[v].binary =
              pending[v].binary + (IF attemptedBINARY_STL[v] THEN 0 ELSE 1)
         /\ file'[v] = file[v]]_vars

C27_Witness ==
  \E v \in Viewers :
    /\ file[v] = AsciiFile(PER_BATCH, 7 * PER_BATCH + 2, 0, 1)
    /\ asciiRuns[v] = 1
    /\ attemptedASCII_STL[v]
    /\ pending[v].binary = 1
    /\ displayed[v] = <<>>

\* Coordinate j % 3 of vertex line j \div 3 of facet i: one of the last three
\* tokens of that line.
OwnToken(f, i, j) ==
  LET line == Line(f, 3 + (j \div 3) + 7 * i)
  IN Elem(line, Len(line) - 3 + (j % 3))

\* C28: every coordinate of every triangle stl_ascii displays is the
\* corresponding one of the last three tokens of its own vertex line, also
\* when the vertex lines of a facet differ in their number of tokens.
C28_CoordinatesFromOwnLine ==
  \A v \in Viewers :
    \A d \in ShownBy(v, "ascii") :
      file[v].kind = "ascii" =>
        \A i \in 0..(displayed[v][d].triCount - 1), j \in 0..8 :
          displayed[v][d].vertices[9 * i + j + 1] = OwnToken(file[v], i, j)

\* The little-endian 32-bit word at bytes k..k+3 of the blob.
FloatAt(f, k) ==
  Byte(f, k) + 256 * Byte(f, k + 1) + 65536 * Byte(f, k + 2)
    + 16777216 * Byte(f, k + 3)

\* Record i lies wholly inside the blob.
WholeRecord(f, i) == 84 + 50 * (i + 1) <= ByteLength(f)

\* stl_binary displays a mesh for v in this step.
BinaryDisplays(v) ==
  /\ Len(displayed'[v]) > Len(displayed[v])
  /\ displayed'[v][Len(displayed'[v])].by = "binary"

\* The bytes getTriangle(i) makes its Float32Array of lie at the offsets
\* from lo up to hi (not included) of one record.
ReadsWithin(f, i, lo, hi) ==
  LET sl == Slice(f, BinaryOffset(i), BinaryOffset(i) + 36)
  IN sl.len > 0 =>
       lo <= ((sl.lo - 84) % 50) /\ ((sl.lo - 84) % 50) + sl.len <= hi

\* C29 as stated: float j of triangle i of a mesh stl_binary displays is the
\* word at byte 84 + 50i + 4j, one of the first 36 bytes of record i, and the
\* two attribute bytes of the record are not read.
C29_FloatsFromRecordStart ==
  [][\A v \in Viewers :
       (file[v].kind = "binary" /\ BinaryDisplays(v)) =>
         LET m == displayed'[v][Len(displayed'[v])]
         IN \A i \in 0..(m.triCount - 1) :
              WholeRecord(file[v], i) =>
                /\ \A j \in 0..8 :
                     m.vertices[9 * i + j + 1] =
                       FloatAt(file[v], 84 + 50 * i + 4 * j)
                /\ ReadsWithin(file[v], i, 0, 48)]_vars

\* C29, amended: float j of triangle i of a mesh stl_binary displays is the
\* word at byte 96 + 50i + 4j, one of the 36 bytes that follow the 12-byte
\* normal of record i, and neither the normal nor the two attribute bytes of
\* a record are read.
C29_FloatsAfterNormal ==
  [][\A v \in Viewers :
       (file[v].kind = "binary" /\ BinaryDisplays(v)) =>
         LET m == displayed'[v][Len(displayed'[v])]
         IN \A i \in 0..(m.triCount - 1) :
              WholeRecord(file[v], i) =>
                /\ \A j \in 0..8 :
                     m.vertices[9 * i + j + 1] =
                       FloatAt(file[v], 96 + 50 * i + 4 * j)
                /\ ReadsWithin(file[v], i, 12, 48)]_vars

\* A displayed binary triangle whose normal differs from its first vertex.
C29_Witness ==
  \E v \in Viewers :
    /\ file[v] = BinaryFile(PER_BATCH + 1, PER_BATCH + 1, 0, 1, "binary", 3)
    /\ ShownBy(v, "binary") # {}
    /\ \E i \in 0..PER_BATCH :
         FloatAt(file[v], 84 + 50 * i) # FloatAt(file[v], 96 + 50 * i)

\* The indices the corners of face lines contribute when none is skipped: one
\* for each of the first three corners of a line, three (the corner and the
\* two the fan repeats) for each later one.
RECURSIVE IndicesOfCorners(_)
IndicesOfCorners(fl) ==
  IF fl = <<>> THEN 0
  ELSE LET n == Len(CornersOf(Head(fl)))
       IN (IF n <= 3 THEN n ELSE 3 * n - 6) + IndicesOfCorners(Tail(fl))

\* C30: when the corner tokens of the face lines all begin with a numeral,
\* every one of them contributes its index to the displayed list, and a text
\* whose one face line is 'f a b c' with positive a, b, c and nothing after c
\* gives exactly the indices a-1, b-1, c-1.
C30_EveryCornerContributes ==
  \A v \in Viewers : \A i \in ObjShown(v) :
    LET fl == FaceLines(text[v])
    IN /\ (\A k \in DOMAIN fl : \A c \in DOMAIN CornersOf(fl[k]) :
             CornersOf(fl[k])[c][1].num) =>
            Len(displayed[v][i].faceIndices) = IndicesOfCorners(fl)
       /\ \A a, b, c \in 1..3 :
            fl = <<FLine(<<Corner(a), Corner(b), Corner(c)>>)>> =>
              displayed[v][i].faceIndices = <<a - 1, b - 1, c - 1>>

\* The 'vt' lines of a text, in order.
UvLines(t) == SelectSeq(t, LAMBDA l : l.id = "vt")

\* C31: in the first face line of a text, read after U 'vt' lines of two or
\* three numerals each, a corner a/-j that parseFace reads among the first
\* three corners, the corners before it being numerals, gives the UV index
\* U - j at its place in the displayed per-corner UV list.
C31_NegativeUvIndexFromEnd ==
  \A v \in Viewers : \A i \in ObjShown(v) :
    FaceLines(text[v]) /= <<>> =>
      LET p == FirstFace(text[v])
          arr == text[v][p].toks
          vt == UvLines(SubSeq(text[v], 1, p - 1))
      IN (\A u \in DOMAIN vt : Len(NumbersOf(Tail(vt[u].toks))) \in {2, 3}) =>
           \A k \in 1..3 :
             (k < Len(arr) - 1
                /\ (\A m \in 1..k : arr[m + 1][1].num)
                /\ Len(arr[k + 1]) >= 2
                /\ arr[k + 1][2].num
                /\ arr[k + 1][2].val < 0) =>
               displayed[v][i].uvs[k] = Third(3 * (Len(vt) + arr[k + 1][2].val))

\* The lists of parseOBJ's reader.onload after the first n lines of the text
\* and the first q rounds of parseFace's loop over line n + 1 (no round for a
\* line that is no face line).
ListsAfter(t, n, q) ==
  LET st == ObjParse(SubSeq(t, 1, n))
  IN IF q > 0 /\ t[n + 1].id = "f "
     THEN parseFace(SubSeq(t[n + 1].toks, 1, q + 2), st)
     ELSE st

\* C32: once parseOBJ's reader callback has run for a text, the face list and
\* the per-corner UV list had the same length after every line and after
\* every round of parseFace's loop, and the index list and the UV list of
\* every display have the same length.
C32_UvListParallelToIndexList ==
  \A v \in Viewers :
    objRuns[v] >= 1 =>
      /\ \A i \in ObjShown(v) :
           Len(displayed[v][i].uvs) = Len(displayed[v][i].faceIndices)
      /\ \A n \in 0..(Len(text[v]) - 1) :
           \A q \in 0..(Len(text[v][n + 1].toks) - 2) :
             Len(ListsAfter(text[v], n, q).uvfaces)
               = Len(ListsAfter(text[v], n, q).faces)

\* A display of a face line with a fan duplicate whose corners have no UV
\* component.
C32_Witness ==
  \E v \in Viewers : \E i \in ObjShown(v) :
    /\ FaceLines(text[v]) =
         <<FLineBlank(<<Corner(1), Corner(2), Corner(3), Corner(4), Corner(5)>>)>>
    /\ Len(displayed[v][i].faceIndices) = 9
    /\ \A k \in 1..9 : displayed[v][i].uvs[k].nan

\* Controller.update runs for v in this step with an object loaded and a
\* rotation target pending: it takes the interpolation branch.
Interpolates(v) ==
  /\ updates'[v] = updates[v] + 1
  /\ Len(objects[v]) > 0
  /\ target[v].rotation.set

\* C33: an update that interpolates toward a pending rotation target leaves
\* transitionFactors.rotation, the divisor it used, at 1 or more.
C33_RotationDivisorAtLeastOne ==
  [][\A v \in Viewers :
       Interpolates(v) => transitionFactors'[v].rotation >= 1]_vars

\* step is the f-th part of diff, up to the unit in which angles are held.
PartOf(step, diff, f) == f * step - diff > -f /\ f * step - diff < f

\* C34: an update made with a rotation target pending moves each angle by the
\* interpolation step toward the target and by nothing else, landing on the
\* target when the divisor is 1; an update made with an object loaded and no
\* target pending adds the rotate() speeds; and no step but rotate() and
\* stopRotation() changes the speeds.
C34_InterpolationThenSpin ==
  [][\A v \in Viewers :
       /\ (Interpolates(v) /\ rotation[v].finite
             /\ transitionFactors[v].rotation >= 2) =>
            LET f == transitionFactors[v].rotation - 1
                t == target[v].rotation
            IN /\ rotation'[v].finite
               /\ PartOf(rotation'[v].x - rotation[v].x, t.x - rotation[v].x, f)
               /\ PartOf(rotation'[v].y - rotation[v].y, t.y - rotation[v].y, f)
               /\ PartOf(rotation'[v].z - rotation[v].z, t.z - rotation[v].z, f)
               /\ f = 1 => /\ rotation'[v].x = t.x /\ rotation'[v].y = t.y
                           /\ rotation'[v].z = t.z
                           /\ ~target'[v].rotation.set
       /\ (updates'[v] = updates[v] + 1 /\ Len(objects[v]) > 0
             /\ ~target[v].rotation.set) =>
            /\ rotation'[v].x = rotation[v].x + rotationSpeed[v].x
            /\ rotation'[v].y = rotation[v].y + rotationSpeed[v].y
            /\ rotation'[v].z = rotation[v].z + rotationSpeed[v].z
       /\ (rotReq'[v] = rotReq[v] \/ rotReq'[v].op \in {"set", "transition"}) =>
            rotationSpeed'[v] = rotationSpeed[v]]_vars

\* rotate(1, 2, 3), then a transition of three frames: three updates
\* interpolate, the third reaches and clears the target, the fourth spins.
C34_Witness ==
  \E v \in Viewers :
    /\ rotReq[v].op = "transition"
    /\ rotReq[v].frames2 = 6
    /\ rotReq[v].loaded >= 1
    /\ rotReq[v].speed = Speed(1, 2, 3)
    /\ rotationSpeed[v] = Speed(1, 2, 3)
    /\ Len(rotLog[v]) = 4
    /\ rotLog[v][2].pending
    /\ ~rotLog[v][3].pending
    /\ rotLog[v][3].rotation # rotReq[v].rotation
    /\ rotLog[v][4].rotation.x = rotLog[v][3].rotation.x + Radians(1)
    /\ rotLog[v][4].rotation.y = rotLog[v][3].rotation.y + Radians(2)
    /\ rotLog[v][4].rotation.z = rotLog[v][3].rotation.z + Radians(3)

\* C35: no step turns a true attempt flag of a viewer false; a step changes
\* attemptedASCII_STL only when it is the reader callback of stl_ascii and its
\* try block threw, and attemptedBINARY_STL only when it is the reader callback
\* of stl_binary and its try block threw; a reader callback whose try block
\* did not throw leaves both flags as they were.
C35_FlagsOnlySetOnFailure ==
  [][\A v \in Viewers :
       /\ attemptedASCII_STL[v] => attemptedASCII_STL'[v]
       /\ attemptedBINARY_STL[v] => attemptedBINARY_STL'[v]
       /\ attemptedASCII_STL'[v] # attemptedASCII_STL[v] =>
            /\ asciiRuns'[v] = asciiRuns[v] + 1
            /\ AsciiTry(file[v], clock').threw
       /\ attemptedBINARY_STL'[v] # attemptedBINARY_STL[v] =>
            /\ binaryRuns'[v] = binaryRuns[v] + 1
            /\ BinaryTry(file[v], clock').threw
       /\ (asciiRuns'[v] = asciiRuns[v] + 1 /\ ~AsciiTry(file[v], clock').threw) =>
            /\ attemptedASCII_STL'[v] = attemptedASCII_STL[v]
            /\ attemptedBINARY_STL'[v] = attemptedBINARY_STL[v]
       /\ (binaryRuns'[v] = binaryRuns[v] + 1 /\ ~BinaryTry(file[v], clock').threw) =>
            /\ attemptedASCII_STL'[v] = attemptedASCII_STL[v]
            /\ attemptedBINARY_STL'[v] = attemptedBINARY_STL[v]]_vars

\* stl_ascii failed and set its flag, then stl_binary parsed the same file
\* without throwing and displayed it: the ASCII flag is still set and the
\* binary flag still clear.
C35_Witness ==
  \E v \in Viewers :
    /\ asciiRuns[v] >= 1 /\ binaryRuns[v] >= 1
    /\ ~BinaryTry(file[v], clock).threw
    /\ ShownBy(v, "binary") # {}
    /\ attemptedASCII_STL[v] /\ ~attemptedBINARY_STL[v]
    /\ pending[v].ascii = 0 /\ pending[v].binary = 0 /\ pending[v].sniff = 0

====
